---- MODULE Spec2Model ----
(***************************************************************************)
(* FluxGrid core engine: the JSON-RPC transport server (rpc/server.go),    *)
(* the stream registry and the streaming query producer                    *)
(* (handlers/register.go) and the StreamSession coordinator                *)
(* (protocol/streaming.go).                                                *)
(*                                                                         *)
(* Threads: the client process writing envelopes to the input pipe, the    *)
(* goroutine running Server.Serve (which also runs every request handler,  *)
(* server.go:131), and one goroutine per notification (server.go:101).     *)
(***************************************************************************)
EXTENDS Integers, Sequences, FiniteSets, TLC

(***************************************************************************)
(* Bounds of the model.                                                    *)
(***************************************************************************)
MaxReqs == 2
MaxStreams == 1
MaxNotifs == 1
MaxRows == 3
MaxSeq == 2
MaxChunks == 3
MaxSends == 2
MaxMsgs == 3

(***************************************************************************)
(* Program constants.                                                      *)
(***************************************************************************)
DefaultHighWaterMark == 5000
DefaultFetchSize == 256
AckChCap == 1

(***************************************************************************)
(* JSON-RPC ids as they appear on the wire: a JSON number or a JSON        *)
(* string.                                                                 *)
(***************************************************************************)
NumId(n) == [t |-> "num", n |-> n, s |-> ""]
StrId(s) == [t |-> "str", n |-> 0, s |-> s]
RawIds == {NumId(1), StrId("a"), StrId("")}
NoId == [t |-> "none", n |-> 0, s |-> ""]

DigitChars == <<"0", "1", "2", "3", "4", "5", "6", "7", "8", "9">>

RECURSIVE FormatF0(_)
\* fmt.Sprintf("%.0f", id) of a non-negative integral float64
FormatF0(n) ==
    IF n < 10 THEN DigitChars[n + 1]
    ELSE FormatF0(n \div 10) \o DigitChars[(n % 10) + 1]

RECURSIVE StripZeros(_)
StripZeros(n) == IF n > 0 /\ n % 10 = 0 THEN StripZeros(n \div 10) ELSE n

RECURSIVE NumDigits(_)
NumDigits(n) == IF n < 10 THEN 1 ELSE 1 + NumDigits(n \div 10)

RECURSIVE Pow10(_)
Pow10(k) == IF k = 0 THEN 1 ELSE 10 * Pow10(k - 1)

\* fmt.Sprint of a non-negative integral float64: %v is the shortest %g,
\* which switches to exponent form from 1e+06 on
SprintFloat(n) ==
    LET e == NumDigits(n) - 1
        m == StripZeros(n)
        lead == m \div Pow10(NumDigits(m) - 1)
        rest == m % Pow10(NumDigits(m) - 1)
    IN  IF e < 6 THEN FormatF0(n)
        ELSE DigitChars[lead + 1]
             \o (IF NumDigits(m) > 1 THEN "." \o FormatF0(rest) ELSE "")
             \o "e+" \o (IF e < 10 THEN "0" ELSE "") \o FormatF0(e)

\* canonicalID: the in-flight key of a request id
canonicalID(raw) == IF raw.t = "num" THEN FormatF0(raw.n) ELSE raw.s

\* cancelHandler: the key it hands to Server.Cancel
cancelKey(raw) == IF raw.t = "num" THEN SprintFloat(raw.n) ELSE raw.s

\* rpc.RequestIDFromContext: the canonical id of the request being served
RequestIDFromContext(raw) == canonicalID(raw)

Keys == {canonicalID(r) : r \in RawIds}
StreamIds == Keys \ {""}

(***************************************************************************)
(* query.execute options the client may pass (options.stream); zero means  *)
(* "not given".                                                            *)
(***************************************************************************)
StreamOpts == {[hwm |-> 1, fetch |-> 1], [hwm |-> 3, fetch |-> 2], [hwm |-> 0, fetch |-> 0]}
NoOpt == [hwm |-> 0, fetch |-> 0]

\* executeHandler: defaults of the stream options
EffectiveHwm(o) == IF o.hwm <= 0 THEN DefaultHighWaterMark ELSE o.hwm
EffectiveFetch(o) == IF o.fetch <= 0 THEN DefaultFetchSize ELSE o.fetch

\* NewStreamSession: a negative high-water mark is clamped to zero
NewStreamSession(hwm) == IF hwm < 0 THEN 0 ELSE hwm

\* a shouldAck that looks at hasMore only, whatever is buffered
shouldAckFinalOnly(hwm, buffered, hasMore) == ~hasMore

\* a shouldAck that asks for an ack after every chunk, whatever is buffered
shouldAckEveryChunk(hwm, buffered, hasMore) == TRUE

\* StreamSession.shouldAck, on the post-increment bufferedRows
shouldAck(hwm, buffered, hasMore) ==
    IF hwm = 0 THEN ~hasMore
    ELSE IF buffered >= hwm THEN TRUE
    ELSE IF ~hasMore THEN TRUE
    ELSE FALSE

(***************************************************************************)
(* Envelopes                                                               *)
(***************************************************************************)
\* tag is not on the wire: it numbers the requests in the order the client
\* wrote them, so that a response can be traced to its request
Req(method, id, opt) ==
    [kind |-> "req", method |-> method, id |-> id, opt |-> opt, rid |-> "", seq |-> 0,
     tag |-> 0]
Notif(method, id, rid, seq) ==
    [kind |-> "notif", method |-> method, id |-> id, opt |-> NoOpt, rid |-> rid, seq |-> seq,
     tag |-> 0]

\* the end of the input, and an envelope that is not valid JSON
Eof == [Notif("", NoId, "", 0) EXCEPT !.kind = "eof"]
Malformed == [Notif("", NoId, "", 0) EXCEPT !.kind = "bad"]

\* what the client may write
ClientRequests ==
    {Req("core.ping", id, NoOpt) : id \in {NumId(1), StrId("")}}
    \cup {Req("query.execute", id, o) : id \in {NumId(1), StrId("a")}, o \in StreamOpts}
    \cup {Req("query.execute", StrId(""), NoOpt), Req("no.such.method", NumId(1), NoOpt)}
Handlers == {"core.ping", "query.execute"}
NotificationHandlers == {"query.cancel", "query.stream.ack", "query.stream.cancel"}

\* messages on the output
Response(id, code, tag) ==
    [type |-> "response", id |-> id, method |-> "", rid |-> "", seq |-> 0,
     hasMore |-> FALSE, rows |-> 0, code |-> code, fatal |-> FALSE, tag |-> tag]
Notification(method, rid, seq, rows, hasMore, code, fatal) ==
    [type |-> "notification", id |-> NoId, method |-> method, rid |-> rid, seq |-> seq,
     hasMore |-> hasMore, rows |-> rows, code |-> code, fatal |-> fatal, tag |-> 0]

\* The request being served: the locals of Serve and of the handler; ackNil
\* says that the session was built without an ack channel (ackOut == nil).  The
\* last lines hold history, kept for the properties only: the request's tag,
\* the output index of query.stream.start, the output length and the
\* handler's position when the context was cancelled, the highest seq of a client ack delivered to this stream's
\* channel, the gate and seq of the last HandleChunk call that returned, and
\* whether an ack naming another stream was handled while this one ran, the
\* seq of the last returned chunk and the handler's position when a client
\* ack was put on the channel,
\* and whether an ack with a seq below the current chunk's was handled while
\* the handler was suspended in flushAck, and the bufferedRows that the last
\* Reset of a session driven on its own cleared.
NoCall ==
    [id |-> NoId, key |-> "", no |-> 0, method |-> "", opt |-> NoOpt, rid |-> "",
     hwm |-> 0, fetch |-> 0, batch |-> 0, seq |-> 0, total |-> 0,
     buffered |-> 0, hasMore |-> FALSE, ctxErr |-> "none", rowsErr |-> "none",
     code |-> "0", ackNil |-> FALSE,
     tag |-> 0, startAt |-> 0, cancelAt |-> 0, cancelPc |-> "", ackMax |-> 0, lastGate |-> "none",
     lastSeq |-> 0, foreign |-> FALSE, keptAt |-> 0, keptPc |-> "",
     lowAck |-> FALSE, cleared |-> 0]

VARIABLES
    input,      \* envelopes written by the client and not yet decoded
    nReq,       \* requests the client has written
    nExec,      \* query.execute requests the client has written
    nNotif,     \* notifications the client has written
    pc,         \* where the Serve goroutine is
    call,       \* the request being served and its handler's locals
    inflight,   \* Server.inflight: canonical id -> cancel handle (request number)
    cancelled,  \* request numbers whose cancel handle has been invoked
    active,     \* streamManager.active: requestId -> stream (request number)
    ackCh,      \* the ack channel of the stream being served
    tasks,      \* notification goroutines that have not finished
    output,     \* whole messages written to the output
    wmsg,       \* the message the Serve goroutine is encoding
    wret,       \* where the Serve goroutine continues after the write
    writers,    \* threads inside an Encode on the output writer
    torn,       \* an Encode began while another one was in progress
    dropped,    \* history: notifications dropped for lack of a handler
    ext         \* the extension: CoreClient, QueryService and its assemblers

vars == <<input, nReq, nExec, nNotif, pc, call, inflight, cancelled, active, ackCh,
          tasks, output, wmsg, wret, writers, torn, dropped, ext>>

NoMsg == Response(NoId, "0", 0)
Empty == [k \in {} |-> 0]

\* The extension before CoreClient.start(): CoreClient.process, nextRequestId
\* and the keys of CoreClient.pending, QueryService.streamAssemblers and the
\* keys of completedStates, and the stream options of the last
\* QueryService.execute.  The last lines hold history: how each promise
\* returned by sendRequest was settled, how many messages of the output the
\* client has handled, the acks the assemblers emitted, and the last message
\* an assembler handled with the counter it found.
NoExt ==
    [running |-> FALSE, nextRequestId |-> 1, pending |-> Empty, assemblers |-> Empty,
     completedStates |-> {}, options |-> NoOpt,
     settled |-> Empty, read |-> 0, acks |-> <<>>, last |-> NoMsg, before |-> 0]

Put(f, k, v) == [x \in DOMAIN f \cup {k} |-> IF x = k THEN v ELSE f[x]]
Del(f, k) == [x \in DOMAIN f \ {k} |-> f[x]]

Init ==
    /\ input = <<>>
    /\ nReq = 0
    /\ nExec = 0
    /\ nNotif = 0
    /\ pc = "read"
    /\ call = NoCall
    /\ inflight = Empty
    /\ cancelled = {}
    /\ active = Empty
    /\ ackCh = <<>>
    /\ tasks = Empty
    /\ output = <<>>
    /\ wmsg = NoMsg
    /\ wret = ""
    /\ writers = {}
    /\ torn = FALSE
    /\ dropped = 0
    /\ ext = NoExt

(***************************************************************************)
(* The client                                                              *)
(***************************************************************************)
\* the client has closed the input or has written a malformed envelope;
\* Serve reads nothing after either, so the client writes nothing more
Closed == input # <<>> /\ input[Len(input)].kind \in {"eof", "bad"}

ClientRequest ==
    /\ ~Closed
    /\ nReq < MaxReqs
    /\ \E r \in ClientRequests :
        /\ r.method = "query.execute" => nExec < MaxStreams
        /\ input' = Append(input, [r EXCEPT !.tag = nReq + 1])
        /\ nExec' = IF r.method = "query.execute" THEN nExec + 1 ELSE nExec
    /\ nReq' = nReq + 1
    /\ UNCHANGED <<ext, dropped, nNotif, pc, call, inflight, cancelled, active, ackCh, tasks,
                   output, wmsg, wret, writers, torn>>

ClientCancel ==
    /\ ~Closed
    /\ nNotif < MaxNotifs
    /\ \E id \in RawIds :
        input' = Append(input, Notif("query.cancel", id, "", 0))
    /\ nNotif' = nNotif + 1
    /\ UNCHANGED <<ext, dropped, nReq, nExec, pc, call, inflight, cancelled, active, ackCh, tasks,
                   output, wmsg, wret, writers, torn>>

ClientAck ==
    /\ ~Closed
    /\ nNotif < MaxNotifs
    /\ \E rid \in Keys, s \in 1..MaxSeq :
        /\ rid = "" => s = 1
        /\ input' = Append(input, Notif("query.stream.ack", NoId, rid, s))
    /\ nNotif' = nNotif + 1
    /\ UNCHANGED <<ext, dropped, nReq, nExec, pc, call, inflight, cancelled, active, ackCh, tasks,
                   output, wmsg, wret, writers, torn>>

ClientStreamCancel ==
    /\ ~Closed
    /\ nNotif < MaxNotifs
    /\ \E rid \in StreamIds :
        input' = Append(input, Notif("query.stream.cancel", NoId, rid, 0))
    /\ nNotif' = nNotif + 1
    /\ UNCHANGED <<ext, dropped, nReq, nExec, pc, call, inflight, cancelled, active, ackCh, tasks,
                   output, wmsg, wret, writers, torn>>

ClientUnknownNotification ==
    /\ ~Closed
    /\ nNotif < MaxNotifs
    /\ input' = Append(input, Notif("no.such.notification", NoId, "", 0))
    /\ nNotif' = nNotif + 1
    /\ UNCHANGED <<ext, dropped, nReq, nExec, pc, call, inflight, cancelled, active, ackCh, tasks,
                   output, wmsg, wret, writers, torn>>

\* the client closes its end of the pipe
ClientClose ==
    /\ ~Closed
    /\ input' = Append(input, Eof)
    /\ UNCHANGED <<ext, dropped, nReq, nExec, nNotif, pc, call, inflight, cancelled, active, ackCh,
                   tasks, output, wmsg, wret, writers, torn>>

\* the client writes bytes that do not decode
ClientMalformed ==
    /\ ~Closed
    /\ input' = Append(input, Malformed)
    /\ UNCHANGED <<ext, dropped, nReq, nExec, nNotif, pc, call, inflight, cancelled, active, ackCh,
                   tasks, output, wmsg, wret, writers, torn>>

(***************************************************************************)
(* Server.Serve                                                            *)
(***************************************************************************)
\* encoder.Encode begins: the thread starts writing msg to the output
BeginEncode(msg, next) ==
    /\ wmsg' = msg
    /\ wret' = next
    /\ pc' = "encode"
    /\ torn' = (torn \/ writers # {})
    /\ writers' = writers \cup {"serve"}

\* encoder.Encode ends: the whole message is on the output
EncodeDone ==
    /\ pc = "encode"
    /\ output' = Append(output, wmsg)
    /\ writers' = writers \ {"serve"}
    /\ pc' = wret
    /\ wmsg' = NoMsg
    /\ wret' = ""
    /\ UNCHANGED <<ext, dropped, input, nReq, nExec, nNotif, call, inflight, cancelled, active, ackCh,
                   tasks, torn>>

\* server.go:91-94, Decode returns io.EOF: Serve returns nil
ServeEOF ==
    /\ pc = "read"
    /\ input # <<>>
    /\ Head(input).kind = "eof"
    /\ pc' = "return nil"
    /\ UNCHANGED <<ext, dropped, input, nReq, nExec, nNotif, call, inflight, cancelled, active,
                   ackCh, tasks, output, wmsg, wret, writers, torn>>

\* server.go:91-96, Decode fails: Serve logs and returns the error
ServeDecodeError ==
    /\ pc = "read"
    /\ input # <<>>
    /\ Head(input).kind = "bad"
    /\ pc' = "return err"
    /\ UNCHANGED <<ext, dropped, input, nReq, nExec, nNotif, call, inflight, cancelled, active,
                   ackCh, tasks, output, wmsg, wret, writers, torn>>

\* the number of requests Serve has decoded so far; a notification goroutine
\* keeps the number at the time its notification was decoded (history)
RequestsRead == nReq - Cardinality({i \in 1..Len(input) : input[i].kind = "req"})

\* a Serve that calls the notification handler itself and reads on only when
\* the handler has returned
ServeNotificationInline ==
    /\ pc = "read"
    /\ input # <<>>
    /\ Head(input).kind = "notif"
    /\ Head(input).method \in NotificationHandlers
    /\ LET e == Head(input)
           tid == CHOOSE i \in 1..MaxNotifs + 1 : i \notin DOMAIN tasks
       IN  tasks' = Put(tasks, tid,
                        [method |-> e.method, id |-> e.id, rid |-> e.rid, seq |-> e.seq,
                         pc |-> "start", key |-> "", handle |-> 0, live |-> FALSE,
                         after |-> RequestsRead])
    /\ input' = Tail(input)
    /\ pc' = "notification"
    /\ UNCHANGED <<ext, dropped, nReq, nExec, nNotif, call, inflight, cancelled, active, ackCh,
                   output, wmsg, wret, writers, torn>>

\* a Serve whose reader runs beside the handlers: a notification is decoded
\* and dispatched while a request handler is still running
ServeNotificationAnyTime ==
    /\ input # <<>>
    /\ Head(input).kind = "notif"
    /\ Head(input).method \in NotificationHandlers
    /\ LET e == Head(input)
           tid == CHOOSE i \in 1..MaxNotifs + 1 : i \notin DOMAIN tasks
       IN  tasks' = Put(tasks, tid,
                        [method |-> e.method, id |-> e.id, rid |-> e.rid, seq |-> e.seq,
                         pc |-> "start", key |-> "", handle |-> 0, live |-> FALSE,
                         after |-> RequestsRead])
    /\ input' = Tail(input)
    /\ UNCHANGED <<ext, dropped, nReq, nExec, nNotif, pc, call, inflight, cancelled, active, ackCh,
                   output, wmsg, wret, writers, torn>>

\* server.go:99-106, a notification with a registered handler: go handler(...)
ServeNotification ==
    /\ pc = "read"
    /\ input # <<>>
    /\ Head(input).kind = "notif"
    /\ Head(input).method \in NotificationHandlers
    /\ LET e == Head(input)
           tid == CHOOSE i \in 1..MaxNotifs + 1 : i \notin DOMAIN tasks
       IN  tasks' = Put(tasks, tid,
                        [method |-> e.method, id |-> e.id, rid |-> e.rid, seq |-> e.seq,
                         pc |-> "start", key |-> "", handle |-> 0, live |-> FALSE,
                         after |-> RequestsRead])
    /\ input' = Tail(input)
    /\ UNCHANGED <<ext, dropped, nReq, nExec, nNotif, pc, call, inflight, cancelled, active, ackCh,
                   output, wmsg, wret, writers, torn>>

\* a Serve that answers a notification without a handler with the error it
\* gives a request without a handler
ServeUnknownNotificationReplies ==
    /\ pc = "read"
    /\ input # <<>>
    /\ Head(input).kind = "notif"
    /\ Head(input).method \notin NotificationHandlers
    /\ input' = Tail(input)
    /\ dropped' = dropped + 1
    /\ BeginEncode(Response(NoId, "-32601", 0), "read")
    /\ UNCHANGED <<ext, nReq, nExec, nNotif, call, inflight, cancelled, active, ackCh, tasks,
                   output>>

\* server.go:102-105, a notification without a handler is logged and dropped
ServeUnknownNotification ==
    /\ pc = "read"
    /\ input # <<>>
    /\ Head(input).kind = "notif"
    /\ Head(input).method \notin NotificationHandlers
    /\ input' = Tail(input)
    /\ dropped' = dropped + 1
    /\ UNCHANGED <<ext, nReq, nExec, nNotif, pc, call, inflight, cancelled, active, ackCh, tasks,
                   output, wmsg, wret, writers, torn>>

\* a Serve that drops a request without a handler as it drops a notification
ServeUnknownMethodSilent ==
    /\ pc = "read"
    /\ input # <<>>
    /\ Head(input).kind = "req"
    /\ Head(input).method \notin Handlers
    /\ input' = Tail(input)
    /\ UNCHANGED <<ext, dropped, nReq, nExec, nNotif, pc, call, inflight, cancelled, active, ackCh, tasks,
                   output, wmsg, wret, writers, torn>>

\* server.go:108-122, a request without a handler: error response -32601
ServeUnknownMethod ==
    /\ pc = "read"
    /\ input # <<>>
    /\ Head(input).kind = "req"
    /\ Head(input).method \notin Handlers
    /\ input' = Tail(input)
    /\ BeginEncode(Response(Head(input).id, "-32601", Head(input).tag), "read")
    /\ UNCHANGED <<ext, dropped, nReq, nExec, nNotif, call, inflight, cancelled, active, ackCh, tasks, output>>

\* server.go:124-131, a request with a handler: the cancel handle is stored
\* under the canonical id and the handler is called on this goroutine
ServeRequest ==
    /\ pc = "read"
    /\ input # <<>>
    /\ Head(input).kind = "req"
    /\ Head(input).method \in Handlers
    /\ LET e == Head(input)
           no == Cardinality(cancelled \cup {0})
           key == canonicalID(e.id)
       IN  /\ call' = [NoCall EXCEPT !.id = e.id, !.key = key, !.no = no,
                                     !.method = e.method, !.opt = e.opt, !.tag = e.tag]
           /\ inflight' = Put(inflight, key, no)
           /\ pc' = e.method
    /\ input' = Tail(input)
    /\ UNCHANGED <<ext, dropped, nReq, nExec, nNotif, cancelled, active, ackCh, tasks, output, wmsg,
                   wret, writers, torn>>

\* register.go:121-127
pingHandler ==
    /\ pc = "core.ping"
    /\ call' = [call EXCEPT !.code = "0"]
    /\ pc' = "returned"
    /\ UNCHANGED <<ext, dropped, input, nReq, nExec, nNotif, inflight, cancelled, active, ackCh, tasks,
                   output, wmsg, wret, writers, torn>>

\* a Serve that writes the error response of a handler and then returns
ServeRespondFatal ==
    /\ pc = "returned"
    /\ cancelled' = cancelled \cup {call.no}
    /\ inflight' = IF call.key # "" THEN Del(inflight, call.key) ELSE inflight
    /\ BeginEncode(Response(call.id, call.code, call.tag),
                   IF call.code # "0" THEN "return err" ELSE "read")
    /\ call' = NoCall
    /\ UNCHANGED <<ext, dropped, input, nReq, nExec, nNotif, active, ackCh, tasks, output>>

\* server.go:133-151, after the handler: cancel(), inflight.Delete, response
ServeRespond ==
    /\ pc = "returned"
    /\ cancelled' = cancelled \cup {call.no}
    /\ inflight' = IF call.key # "" THEN Del(inflight, call.key) ELSE inflight
    /\ BeginEncode(Response(call.id, call.code, call.tag), "read")
    /\ call' = NoCall
    /\ UNCHANGED <<ext, dropped, input, nReq, nExec, nNotif, active, ackCh, tasks, output>>

(***************************************************************************)
(* query.execute in stream mode: executeHandler and executeStream          *)
(***************************************************************************)
StreamPcs == {"next", "handleChunk", "flushAck", "afterLoop", "reset", "ret"}

Chunk(c, hasMore) ==
    Notification("query.stream.chunk", c.rid, c.seq, c.batch, hasMore, "", FALSE)
StreamError(c, code, fatal) ==
    Notification("query.stream.error", c.rid, 0, 0, FALSE, code, fatal)

\* register.go:273-280, streaming needs a request identifier
executeNoRequestId ==
    /\ pc = "query.execute"
    /\ RequestIDFromContext(call.id) = ""
    /\ call' = [call EXCEPT !.code = "-32030"]
    /\ pc' = "returned"
    /\ UNCHANGED <<ext, dropped, input, nReq, nExec, nNotif, inflight, cancelled, active, ackCh, tasks,
                   output, wmsg, wret, writers, torn>>

\* register.go:385-405, pgx.Connect or conn.Query fails
executeStreamOpenFails ==
    /\ pc = "query.execute"
    /\ RequestIDFromContext(call.id) # ""
    /\ \E code \in {"-32010", "-32011"} : call' = [call EXCEPT !.code = code]
    /\ pc' = "returned"
    /\ UNCHANGED <<ext, dropped, input, nReq, nExec, nNotif, inflight, cancelled, active, ackCh, tasks,
                   output, wmsg, wret, writers, torn>>

\* an executeStream that registers the stream and goes on to the rows without
\* sending query.stream.start
executeStreamOpenSilent ==
    /\ pc = "query.execute"
    /\ RequestIDFromContext(call.id) # ""
    /\ call.ctxErr = "none"
    /\ LET rid == RequestIDFromContext(call.id)
           c == [call EXCEPT !.rid = rid,
                             !.hwm = NewStreamSession(EffectiveHwm(call.opt)),
                             !.fetch = EffectiveFetch(call.opt),
                             !.seq = 1, !.startAt = Len(output) + 1]
        IN  /\ call' = c
            /\ active' = Put(active, rid, c.no)
            /\ ackCh' = <<>>
            /\ pc' = "next"
    /\ UNCHANGED <<ext, dropped, input, nReq, nExec, nNotif, inflight, cancelled, tasks, output,
                   wmsg, wret, writers, torn>>

\* register.go:385-446, the cursor is open; the ack channel and the session
\* are created, the stream is registered, query.stream.start is sent
executeStreamOpen ==
    /\ pc = "query.execute"
    /\ RequestIDFromContext(call.id) # ""
    /\ call.ctxErr = "none"
    /\ LET rid == RequestIDFromContext(call.id)
           c == [call EXCEPT !.rid = rid,
                             !.hwm = NewStreamSession(EffectiveHwm(call.opt)),
                             !.fetch = EffectiveFetch(call.opt),
                             !.seq = 1, !.startAt = Len(output) + 1]
        IN  /\ call' = c
            /\ active' = Put(active, rid, c.no)
            /\ ackCh' = <<>>
            /\ BeginEncode(Notification("query.stream.start", rid, 0, 0, FALSE, "", FALSE),
                           "next")
    /\ UNCHANGED <<ext, dropped, input, nReq, nExec, nNotif, inflight, cancelled, tasks, output>>

\* register.go:382, the deadline of timeoutCtx passes while the stream runs
Timeout ==
    /\ \/ pc \in StreamPcs
       \/ pc = "encode" /\ wret \in StreamPcs
    /\ call.ctxErr = "none"
    /\ call' = [call EXCEPT !.ctxErr = "deadline"]
    /\ UNCHANGED <<ext, dropped, input, nReq, nExec, nNotif, pc, inflight, cancelled, active, ackCh,
                   tasks, output, wmsg, wret, writers, torn>>

\* register.go:506-529, rows.Next() yields a row; a full batch is sent
RowsNextRow ==
    /\ pc = "next"
    /\ call.total < MaxRows
    /\ LET c == [call EXCEPT !.batch = @ + 1, !.total = @ + 1]
       IN  IF c.batch >= c.fetch
           THEN /\ call' = [c EXCEPT !.hasMore = TRUE]
                /\ BeginEncode(Chunk(c, TRUE), "handleChunk")
           ELSE /\ call' = c
                /\ UNCHANGED <<pc, wmsg, wret, writers, torn>>
    /\ UNCHANGED <<ext, dropped, input, nReq, nExec, nNotif, inflight, cancelled, active, ackCh, tasks, output>>

\* register.go:507-515, rows.Values() fails
RowsValuesError ==
    /\ pc = "next"
    /\ call.total < MaxRows
    /\ call' = [call EXCEPT !.code = "-32012"]
    /\ BeginEncode(StreamError(call, "READ_ERROR", TRUE), "ret")
    /\ UNCHANGED <<ext, dropped, input, nReq, nExec, nNotif, inflight, cancelled, active, ackCh, tasks, output>>

\* an end of the rows that sends a final chunk whether or not a batch is
\* pending
RowsNextEndAlwaysFinal ==
    /\ pc = "next"
    /\ \E err \in {"none", "io", "canceled", "deadline"} :
        /\ err \in {"canceled", "deadline"} => call.ctxErr = err
        /\ call' = [call EXCEPT !.rowsErr = err, !.hasMore = FALSE]
        /\ BeginEncode(Chunk(call, FALSE), "handleChunk")
    /\ UNCHANGED <<ext, dropped, input, nReq, nExec, nNotif, inflight, cancelled, active, ackCh, tasks, output>>

\* register.go:506 and 532-536, rows.Next() returns false: the rows are
\* exhausted, or the read failed (the context is done, or the driver failed);
\* a pending batch is sent as the final chunk
RowsNextEnd ==
    /\ pc = "next"
    /\ \E err \in {"none", "io", "canceled", "deadline"} :
        /\ err \in {"canceled", "deadline"} => call.ctxErr = err
        /\ IF call.batch > 0
           THEN /\ call' = [call EXCEPT !.rowsErr = err, !.hasMore = FALSE]
                /\ BeginEncode(Chunk(call, FALSE), "handleChunk")
           ELSE /\ call' = [call EXCEPT !.rowsErr = err]
                /\ pc' = "afterLoop"
                /\ UNCHANGED <<wmsg, wret, writers, torn>>
    /\ UNCHANGED <<ext, dropped, input, nReq, nExec, nNotif, inflight, cancelled, active, ackCh, tasks, output>>

\* a sendChunk that resets the batch and forgets to advance seq
AfterChunkSameSeq(c) == [c EXCEPT !.batch = 0]

\* register.go:501-503, sendChunk after HandleChunk returned nil
AfterChunk(c) == [c EXCEPT !.seq = @ + 1, !.batch = 0]
AfterChunkPc(c) == IF c.hasMore THEN "next" ELSE "afterLoop"

\* streaming.go:56, what sendChunk gets back from session.HandleChunk: the
\* function takes no context and has no result, so the caller never sees an
\* error
HandleChunkErr(c) == "nil"

\* register.go:478-498, the stream error sendChunk reports for an error of
\* HandleChunk
ChunkError(err) ==
    CASE err = "canceled" -> [code |-> "CANCELLED", fatal |-> FALSE, rpc |-> "-32033"]
      [] err = "deadline" -> [code |-> "ACK_TIMEOUT", fatal |-> TRUE, rpc |-> "-32034"]
      [] OTHER -> [code |-> "STREAM_ABORTED", fatal |-> TRUE, rpc |-> "-32035"]

\* the gate a HandleChunk call went through (history)
Gate(c) ==
    IF ~c.hasMore THEN "final"
    ELSE IF c.hwm > 0 /\ c.buffered >= c.hwm THEN "hwm"
    ELSE "open"

\* register.go:472-503, sendChunk once HandleChunk has returned
sendChunkReturn(c, gate) ==
    LET err == HandleChunkErr(c)
        d == [c EXCEPT !.lastGate = gate, !.lastSeq = c.seq]
    IN  IF err = "nil"
        THEN /\ call' = AfterChunk(d)
             /\ pc' = AfterChunkPc(d)
             /\ UNCHANGED <<wmsg, wret, writers, torn>>
        ELSE /\ call' = [c EXCEPT !.code = ChunkError(err).rpc]
             /\ BeginEncode(StreamError(c, ChunkError(err).code, ChunkError(err).fatal),
                            "ret")

\* streaming.go:56-65, HandleChunk up to the decision to flush
HandleChunk ==
    /\ pc = "handleChunk"
    /\ LET c == [call EXCEPT !.buffered = @ + call.batch]
       IN  IF shouldAck(c.hwm, c.buffered, c.hasMore)
           THEN /\ call' = c
                /\ pc' = "flushAck"
                /\ UNCHANGED <<wmsg, wret, writers, torn>>
           ELSE sendChunkReturn(c, Gate(c))
    /\ UNCHANGED <<ext, dropped, input, nReq, nExec, nNotif, inflight, cancelled, active, ackCh, tasks,
                   output>>

\* streaming.go:88-98, flushAck: a blocking send on the ack channel, then
\* bufferedRows is reset
flushAck ==
    /\ pc = "flushAck"
    /\ ~call.ackNil
    /\ Len(ackCh) < AckChCap
    /\ ackCh' = Append(ackCh, [rid |-> call.rid, seq |-> call.seq])
    /\ sendChunkReturn([call EXCEPT !.buffered = 0], Gate(call))
    /\ UNCHANGED <<ext, dropped, input, nReq, nExec, nNotif, inflight, cancelled, active, tasks,
                   output>>

\* streaming.go:88-91, flushAck of a session without an ack channel: it
\* returns before the send and before the reset of bufferedRows
flushAckNil ==
    /\ pc = "flushAck"
    /\ call.ackNil
    /\ sendChunkReturn(call, Gate(call))
    /\ UNCHANGED <<ext, dropped, input, nReq, nExec, nNotif, inflight, cancelled, active, ackCh,
                   tasks, output>>

\* register.go:538-545, rows.Err() after the loop
StreamReadError ==
    /\ pc = "afterLoop"
    /\ call.rowsErr # "none"
    /\ call' = [call EXCEPT !.code = "-32012"]
    /\ BeginEncode(StreamError(call, "READ_ERROR", TRUE), "ret")
    /\ UNCHANGED <<ext, dropped, input, nReq, nExec, nNotif, inflight, cancelled, active, ackCh, tasks, output>>

\* an executeStream that returns its result without sending
\* query.stream.complete
StreamCompleteSilent ==
    /\ pc = "afterLoop"
    /\ call.rowsErr = "none"
    /\ call' = [call EXCEPT !.code = "0"]
    /\ pc' = "reset"
    /\ UNCHANGED <<ext, dropped, input, nReq, nExec, nNotif, inflight, cancelled, active, ackCh, tasks,
                   output, wmsg, wret, writers, torn>>

\* register.go:547-565, query.stream.complete
StreamComplete ==
    /\ pc = "afterLoop"
    /\ call.rowsErr = "none"
    /\ call' = [call EXCEPT !.code = "0"]
    /\ BeginEncode(Notification("query.stream.complete", call.rid, 0, call.total,
                                FALSE, "", FALSE), "reset")
    /\ UNCHANGED <<ext, dropped, input, nReq, nExec, nNotif, inflight, cancelled, active, ackCh, tasks, output>>

\* a Reset that clears the high-water mark along with the counter
ResetAndMark(c) == [c EXCEPT !.buffered = 0, !.hwm = 0]

\* streaming.go:67-70
Reset(c) == [c EXCEPT !.buffered = 0]

\* register.go:567-579 and 423, after query.stream.complete: session.Reset(),
\* then executeStream returns and the deferred streams.unregister runs
StreamReturnOk ==
    /\ pc = "reset"
    /\ call' = Reset(call)
    /\ active' = Del(active, call.rid)
    /\ pc' = "returned"
    /\ UNCHANGED <<ext, dropped, input, nReq, nExec, nNotif, inflight, cancelled, ackCh, tasks,
                   output, wmsg, wret, writers, torn>>

\* an error return of executeStream that leaves the stream registered
StreamReturnErrLeaks ==
    /\ pc = "ret"
    /\ pc' = "returned"
    /\ UNCHANGED <<ext, dropped, input, nReq, nExec, nNotif, call, inflight, cancelled, active, ackCh,
                   tasks, output, wmsg, wret, writers, torn>>

\* register.go:423, executeStream returns an error after query.stream.error:
\* the deferred streams.unregister runs
StreamReturnErr ==
    /\ pc = "ret"
    /\ active' = Del(active, call.rid)
    /\ pc' = "returned"
    /\ UNCHANGED <<ext, dropped, input, nReq, nExec, nNotif, call, inflight, cancelled, ackCh, tasks,
                   output, wmsg, wret, writers, torn>>

(***************************************************************************)
(* Notification goroutines                                                 *)
(***************************************************************************)
\* a cancel handle is invoked: the context of the request it belongs to is done
CancelCtx(c, handle) ==
    IF c.no = handle /\ c.ctxErr = "none"
    THEN [c EXCEPT !.ctxErr = "canceled",
                   !.cancelAt = Len(output) + Cardinality(writers),
                   !.cancelPc = IF pc = "encode" THEN wret ELSE pc]
    ELSE c

\* register.go:594-624 and server.go:74, cancelHandler up to inflight.Load
CancelLoad(t) ==
    /\ t \in DOMAIN tasks
    /\ tasks[t].method = "query.cancel"
    /\ tasks[t].pc = "start"
    /\ LET key == cancelKey(tasks[t].id)
       IN  IF key \in DOMAIN inflight
           THEN tasks' = [tasks EXCEPT ![t].pc = "loaded", ![t].key = key,
                                       ![t].handle = inflight[key],
                                       ![t].live = (inflight[key] = call.no)]
           ELSE tasks' = Del(tasks, t)
    /\ UNCHANGED <<ext, dropped, input, nReq, nExec, nNotif, pc, call, inflight, cancelled, active, ackCh,
                   output, wmsg, wret, writers, torn>>

\* server.go:75-78, Cancel after a successful Load: cancel(), inflight.Delete
CancelInvoke(t) ==
    /\ t \in DOMAIN tasks
    /\ tasks[t].pc = "loaded"
    /\ cancelled' = cancelled \cup {tasks[t].handle}
    /\ call' = CancelCtx(call, tasks[t].handle)
    /\ inflight' = Del(inflight, tasks[t].key)
    /\ tasks' = Del(tasks, t)
    /\ UNCHANGED <<ext, dropped, input, nReq, nExec, nNotif, pc, active, ackCh, output, wmsg, wret,
                   writers, torn>>

\* a handleAck that receives from a full channel to make room instead of
\* dropping the ack
AckSendDrain(ch, rid, seq) ==
    IF Len(ch) < AckChCap THEN Append(ch, [rid |-> rid, seq |-> seq]) ELSE Tail(ch)

\* register.go:74-80, the non-blocking send of handleAck
AckSend(ch, rid, seq) ==
    IF Len(ch) < AckChCap THEN Append(ch, [rid |-> rid, seq |-> seq]) ELSE ch

\* handleAck without the lookup by requestId: any registered stream gets the ack
AckTargetAny(rid) == DOMAIN active # {}

\* register.go:67-69, the registry lookup of handleAck
AckTarget(rid) == rid \in DOMAIN active

\* handleAck answering an ack for an unknown stream with an error written to
\* the output from its own goroutine
handleAckReplies(t) ==
    /\ t \in DOMAIN tasks
    /\ tasks[t].method = "query.stream.ack"
    /\ LET hit == tasks[t].rid # "" /\ AckTarget(tasks[t].rid)
       IN  /\ ackCh' = IF hit THEN AckSend(ackCh, tasks[t].rid, tasks[t].seq) ELSE ackCh
           /\ output' = IF hit THEN output
                        ELSE Append(output, StreamError([call EXCEPT !.rid = tasks[t].rid],
                                                        "UNKNOWN_STREAM", FALSE))
           /\ torn' = (torn \/ (~hit /\ writers # {}))
    /\ tasks' = Del(tasks, t)
    /\ UNCHANGED <<ext, dropped, input, nReq, nExec, nNotif, pc, call, inflight, cancelled, active,
                   wmsg, wret, writers>>

\* register.go:52-81
handleAck(t) ==
    /\ t \in DOMAIN tasks
    /\ tasks[t].method = "query.stream.ack"
    /\ LET hit == tasks[t].rid # "" /\ AckTarget(tasks[t].rid)
           sent == hit /\ AckSend(ackCh, tasks[t].rid, tasks[t].seq) # ackCh
       IN  /\ ackCh' = IF hit THEN AckSend(ackCh, tasks[t].rid, tasks[t].seq) ELSE ackCh
           /\ call' = [call EXCEPT
                         !.ackMax = IF sent /\ tasks[t].seq > @ THEN tasks[t].seq ELSE @,
                         !.foreign = @ \/ (call.rid # "" /\ tasks[t].rid # ""
                                           /\ tasks[t].rid # call.rid),
                         !.keptAt = IF sent THEN call.lastSeq ELSE @,
                         !.keptPc = IF sent THEN pc ELSE @,
                         !.lowAck = @ \/ (hit /\ pc = "flushAck" /\ ~sent
                                          /\ tasks[t].seq < call.seq)]
    /\ tasks' = Del(tasks, t)
    /\ UNCHANGED <<ext, dropped, input, nReq, nExec, nNotif, pc, inflight, cancelled, active,
                   output, wmsg, wret, writers, torn>>

\* register.go:83-107
handleCancel(t) ==
    /\ t \in DOMAIN tasks
    /\ tasks[t].method = "query.stream.cancel"
    /\ call' = IF tasks[t].rid # "" /\ tasks[t].rid \in DOMAIN active
               THEN CancelCtx(call, active[tasks[t].rid])
               ELSE call
    /\ tasks' = Del(tasks, t)
    /\ UNCHANGED <<ext, dropped, input, nReq, nExec, nNotif, pc, inflight, cancelled, active, ackCh,
                   output, wmsg, wret, writers, torn>>

Next ==
    \/ ClientRequest
    \/ ClientCancel
    \/ ClientAck
    \/ ClientStreamCancel
    \/ ClientUnknownNotification
    \/ ClientClose
    \/ ClientMalformed
    \/ ServeEOF
    \/ ServeDecodeError
    \/ ServeNotification
    \/ ServeUnknownNotification
    \/ ServeUnknownMethod
    \/ ServeRequest
    \/ pingHandler
    \/ ServeRespond
    \/ EncodeDone
    \/ executeNoRequestId
    \/ executeStreamOpenFails
    \/ executeStreamOpen
    \/ Timeout
    \/ RowsNextRow
    \/ RowsValuesError
    \/ RowsNextEnd
    \/ HandleChunk
    \/ flushAck
    \/ StreamReadError
    \/ StreamComplete
    \/ StreamReturnOk
    \/ StreamReturnErr
    \/ \E t \in 1..MaxNotifs + 1 : CancelLoad(t)
    \/ \E t \in 1..MaxNotifs + 1 : CancelInvoke(t)
    \/ \E t \in 1..MaxNotifs + 1 : handleAck(t)
    \/ \E t \in 1..MaxNotifs + 1 : handleCancel(t)

Spec == Init /\ [][Next]_vars

\* every step of the server: the Serve goroutine, the handler it runs, the
\* notification goroutines and the request deadline
ServerNext ==
    \/ ServeEOF
    \/ ServeDecodeError
    \/ ServeNotification
    \/ ServeUnknownNotification
    \/ ServeUnknownMethod
    \/ ServeRequest
    \/ pingHandler
    \/ ServeRespond
    \/ EncodeDone
    \/ executeNoRequestId
    \/ executeStreamOpenFails
    \/ executeStreamOpen
    \/ Timeout
    \/ RowsNextRow
    \/ RowsValuesError
    \/ RowsNextEnd
    \/ HandleChunk
    \/ flushAck
    \/ StreamReadError
    \/ StreamComplete
    \/ StreamReturnOk
    \/ StreamReturnErr
    \/ \E t \in 1..MaxNotifs + 1 : CancelLoad(t)
    \/ \E t \in 1..MaxNotifs + 1 : CancelInvoke(t)
    \/ \E t \in 1..MaxNotifs + 1 : handleAck(t)
    \/ \E t \in 1..MaxNotifs + 1 : handleCancel(t)

\* the Go scheduler runs every goroutine that can run
FairSpec == Spec /\ WF_vars(ServerNext)

(***************************************************************************)
(* A StreamSession on its own, driven as its tests drive it: chunks of any *)
(* size on a channel of capacity AckChCap, Reset between chunks, a reader  *)
(* of the channel, and acks put on the channel from outside                *)
(***************************************************************************)
SessionMarks == -1..MaxRows
SessionIdle == {"session", "next", "afterLoop"}

\* NewStreamSession("1", h, ackCh) on an empty channel, or
\* NewStreamSession("1", h, nil)
SessionInit ==
    /\ \E h \in SessionMarks, nil \in BOOLEAN :
          call = [NoCall EXCEPT !.rid = "1", !.hwm = NewStreamSession(h), !.seq = 1,
                                !.ackNil = nil]
    /\ pc = "session"
    /\ input = <<>> /\ nReq = 0 /\ nExec = 0 /\ nNotif = 0
    /\ inflight = Empty /\ cancelled = {} /\ active = Empty
    /\ ackCh = <<>> /\ tasks = Empty /\ output = <<>>
    /\ wmsg = NoMsg /\ wret = "" /\ writers = {} /\ torn = FALSE /\ dropped = 0
    /\ ext = NoExt

\* the caller passes the next chunk to session.HandleChunk
SessionChunk ==
    /\ pc \in SessionIdle
    /\ call.seq <= MaxChunks
    /\ \E n \in 1..MaxRows, more \in BOOLEAN :
          call' = [call EXCEPT !.batch = n, !.hasMore = more]
    /\ pc' = "handleChunk"
    /\ UNCHANGED <<ext, dropped, input, nReq, nExec, nNotif, inflight, cancelled, active, ackCh,
                   tasks, output, wmsg, wret, writers, torn>>

\* the caller calls session.Reset() between two chunks
SessionReset ==
    /\ pc \in SessionIdle
    /\ call' = [Reset(call) EXCEPT !.lastGate = "reset", !.cleared = call.buffered]
    /\ UNCHANGED <<ext, dropped, input, nReq, nExec, nNotif, pc, inflight, cancelled, active,
                   ackCh, tasks, output, wmsg, wret, writers, torn>>

\* the other end of the channel receives an ack
SessionReceive ==
    /\ ~call.ackNil
    /\ ackCh # <<>>
    /\ ackCh' = Tail(ackCh)
    /\ UNCHANGED <<ext, dropped, input, nReq, nExec, nNotif, pc, call, inflight, cancelled,
                   active, tasks, output, wmsg, wret, writers, torn>>

\* handleAck puts a client ack on the channel, or drops it
SessionAck ==
    /\ ~call.ackNil
    /\ \E seq \in 1..MaxSeq : ackCh' = AckSend(ackCh, call.rid, seq)
    /\ UNCHANGED <<ext, dropped, input, nReq, nExec, nNotif, pc, call, inflight, cancelled,
                   active, tasks, output, wmsg, wret, writers, torn>>

SessionNext ==
    \/ SessionChunk
    \/ HandleChunk
    \/ flushAck
    \/ flushAckNil
    \/ SessionReset
    \/ SessionReceive
    \/ SessionAck

SessionSpec == SessionInit /\ [][SessionNext]_vars

(***************************************************************************)
(* The extension: QueryStreamAssembler on its own                          *)
(***************************************************************************)
\* queryService.ts:54, the mark QueryService gives every assembler
StreamHighWaterMark == 5000

\* new QueryStreamAssembler({highWaterMark, onAck}); requestId "" stands for
\* undefined; the rows and columns the assembler collects are left out
NewAssembler(hwm) ==
    [highWaterMark |-> hwm, bufferedSinceAck |-> 0, requestId |-> ""]

\* an assembler that acks only when the buffered rows exceed the mark
assemblerAcksAbove(a, m) ==
    (a.highWaterMark > 0 /\ a.bufferedSinceAck + m.rows > a.highWaterMark) \/ ~m.hasMore

\* queryStream.ts:129-135, `shouldAck || !message.hasMore` on the counter
\* after the chunk's rows were added
assemblerAcks(a, m) ==
    (a.highWaterMark > 0 /\ a.bufferedSinceAck + m.rows >= a.highWaterMark) \/ ~m.hasMore

\* queryStream.ts:114-121
handleStart(a, m) ==
    [a EXCEPT !.requestId = m.rid, !.bufferedSinceAck = 0]

\* queryStream.ts:123-143
handleChunk(a, m) ==
    [a EXCEPT !.requestId = IF @ = "" THEN m.rid ELSE @,
              !.bufferedSinceAck = IF assemblerAcks(a, m) THEN 0 ELSE @ + m.rows]

\* queryStream.ts:136-140, the acks options.onAck receives for message m
onAck(a, m) ==
    IF m.method = "query.stream.chunk" /\ assemblerAcks(a, m)
    THEN <<[rid |-> m.rid, seq |-> m.seq]>>
    ELSE <<>>

\* queryStream.ts:145-160
handleComplete(a, m) == [a EXCEPT !.requestId = IF @ = "" THEN m.rid ELSE @]

\* queryStream.ts:162-173
handleError(a, m) == [a EXCEPT !.requestId = "", !.bufferedSinceAck = 0]

\* queryStream.ts:95-112
handle(a, m) ==
    CASE m.method = "query.stream.start" -> handleStart(a, m)
      [] m.method = "query.stream.chunk" -> handleChunk(a, m)
      [] m.method = "query.stream.complete" -> handleComplete(a, m)
      [] m.method = "query.stream.error" -> handleError(a, m)
      [] OTHER -> a

\* the marks an assembler is built with, and the messages handed to it
AssemblerMarks == {-1, 0, 1, MaxRows, StreamHighWaterMark}
AssemblerIds == {"1", "a"}
AssemblerChunks ==
    {Notification("query.stream.chunk", r, s, n, more, "", FALSE) :
        r \in AssemblerIds, s \in 1..MaxSeq, n \in 0..MaxRows, more \in BOOLEAN}

\* the assembler under test is kept under the key "1"
AssemblerInit ==
    /\ \E h \in AssemblerMarks :
          ext = [NoExt EXCEPT !.assemblers = Put(Empty, "1", NewAssembler(h))]
    /\ pc = "assembler"
    /\ call = NoCall
    /\ input = <<>> /\ nReq = 0 /\ nExec = 0 /\ nNotif = 0
    /\ inflight = Empty /\ cancelled = {} /\ active = Empty
    /\ ackCh = <<>> /\ tasks = Empty /\ output = <<>>
    /\ wmsg = NoMsg /\ wret = "" /\ writers = {} /\ torn = FALSE /\ dropped = 0

\* assembler.handle(m): the assembler's new state, the acks it emitted, and
\* for the record the message and the counter it found
AssemblerHandle(m) ==
    /\ ext' = [ext EXCEPT !.assemblers["1"] = handle(@, m),
                          !.acks = @ \o onAck(ext.assemblers["1"], m),
                          !.last = m,
                          !.before = ext.assemblers["1"].bufferedSinceAck,
                          !.read = @ + 1]
    /\ UNCHANGED <<dropped, input, nReq, nExec, nNotif, pc, call, inflight, cancelled, active,
                   ackCh, tasks, output, wmsg, wret, writers, torn>>

AssemblerStart ==
    /\ ext.read < MaxChunks
    /\ \E r \in AssemblerIds :
          AssemblerHandle(Notification("query.stream.start", r, 0, 0, FALSE, "", FALSE))

AssemblerChunk ==
    /\ ext.read < MaxChunks
    /\ \E m \in AssemblerChunks : AssemblerHandle(m)

AssemblerComplete ==
    /\ ext.read < MaxChunks
    /\ \E r \in AssemblerIds :
          AssemblerHandle(Notification("query.stream.complete", r, 0, 0, FALSE, "", FALSE))

AssemblerError ==
    /\ ext.read < MaxChunks
    /\ \E r \in AssemblerIds :
          AssemblerHandle(Notification("query.stream.error", r, 0, 0, FALSE,
                                       "READ_ERROR", TRUE))

AssemblerNext ==
    \/ AssemblerStart
    \/ AssemblerChunk
    \/ AssemblerComplete
    \/ AssemblerError

AssemblerSpec == AssemblerInit /\ [][AssemblerNext]_vars

(***************************************************************************)
(* The extension: CoreClient on its own                                    *)
(***************************************************************************)
\* id.toString() and String(message.id) of an id on the wire
IdToString(raw) == IF raw.t = "num" THEN FormatF0(raw.n) ELSE raw.s

\* what the core process may write to the client, and more: responses with
\* ids the client never used, twice the same response, notifications, and a
\* line that is not JSON
ClientMessages ==
    {Response(id, code, 0) :
        id \in {NumId(n) : n \in 1..MaxSends + 1} \cup {StrId("1")},
        code \in {"0", "-32601"}}
    \cup {Notification("query.stream.complete", "1", 0, 0, FALSE, "", FALSE),
          [NoMsg EXCEPT !.type = "bad"]}

\* the promises sendRequest has returned so far
Promises == DOMAIN ext.settled

\* the client after start()
ClientInit ==
    /\ ext = [NoExt EXCEPT !.running = TRUE]
    /\ pc = "client"
    /\ call = NoCall
    /\ input = <<>> /\ nReq = 0 /\ nExec = 0 /\ nNotif = 0
    /\ inflight = Empty /\ cancelled = {} /\ active = Empty
    /\ ackCh = <<>> /\ tasks = Empty /\ output = <<>>
    /\ wmsg = NoMsg /\ wret = "" /\ writers = {} /\ torn = FALSE /\ dropped = 0

\* coreClient.ts:39-86, start() on a client without a process
start ==
    /\ ~ext.running
    /\ ext' = [ext EXCEPT !.running = TRUE]
    /\ UNCHANGED <<dropped, input, nReq, nExec, nNotif, pc, call, inflight, cancelled, active,
                   ackCh, tasks, output, wmsg, wret, writers, torn>>

\* coreClient.ts:88-125, sendRequest on a running client: the promise is put
\* in pending under the id's string and the request is written to stdin
sendRequest ==
    /\ ext.running
    /\ Cardinality(Promises) < MaxSends
    /\ LET id == ext.nextRequestId
           promise == Cardinality(Promises) + 1
       IN  /\ ext' = [ext EXCEPT !.nextRequestId = @ + 1,
                                 !.pending = Put(@, IdToString(NumId(id)), promise),
                                 !.settled = Put(@, promise, <<>>)]
           /\ \E method \in Handlers :
                 input' = Append(input, [Req(method, NumId(id), NoOpt) EXCEPT !.tag = promise])
    /\ UNCHANGED <<dropped, nReq, nExec, nNotif, pc, call, inflight, cancelled, active,
                   ackCh, tasks, output, wmsg, wret, writers, torn>>

\* coreClient.ts:93-95, sendRequest without a process: the async function
\* throws, so the promise it returns is rejected at once
sendRequestNotRunning ==
    /\ ~ext.running
    /\ Cardinality(Promises) < MaxSends
    /\ ext' = [ext EXCEPT !.settled = Put(@, Cardinality(Promises) + 1, <<"not running">>)]
    /\ UNCHANGED <<dropped, input, nReq, nExec, nNotif, pc, call, inflight, cancelled, active,
                   ackCh, tasks, output, wmsg, wret, writers, torn>>

\* a handleMessage that settles the promise and leaves it in pending
handleMessageNoDelete(e, m) ==
    IF m.type = "response" /\ IdToString(m.id) \in DOMAIN e.pending
    THEN LET promise == e.pending[IdToString(m.id)]
         IN  [e EXCEPT !.settled[promise] =
                           Append(@, IF m.code # "0" THEN "rejected" ELSE "resolved")]
    ELSE e

\* coreClient.ts:170-194, handleMessage: a message with an id settles the
\* pending promise of that id, if any, and removes it from the map
handleMessage(e, m) ==
    IF m.type = "response" /\ IdToString(m.id) \in DOMAIN e.pending
    THEN LET promise == e.pending[IdToString(m.id)]
         IN  [e EXCEPT !.pending = Del(@, IdToString(m.id)),
                       !.settled[promise] =
                           Append(@, IF m.code # "0" THEN "rejected" ELSE "resolved")]
    ELSE e

\* coreClient.ts:62-65 and 156-168, a line arrives on the process's stdout
ClientReceive ==
    /\ ext.read < MaxMsgs
    /\ \E m \in ClientMessages :
          ext' = [handleMessage(ext, m) EXCEPT !.read = @ + 1, !.last = m]
    /\ UNCHANGED <<dropped, input, nReq, nExec, nNotif, pc, call, inflight, cancelled, active,
                   ackCh, tasks, output, wmsg, wret, writers, torn>>

\* coreClient.ts:141-154, dispose: every pending promise is rejected, the map
\* is cleared and the process is killed
dispose ==
    /\ ext.running
    /\ ext' = [ext EXCEPT
                 !.settled = [k \in DOMAIN @ |->
                                 IF \E id \in DOMAIN ext.pending : ext.pending[id] = k
                                 THEN Append(@[k], "stopped") ELSE @[k]],
                 !.pending = Empty,
                 !.running = FALSE]
    /\ UNCHANGED <<dropped, input, nReq, nExec, nNotif, pc, call, inflight, cancelled, active,
                   ackCh, tasks, output, wmsg, wret, writers, torn>>

ClientNext ==
    \/ start
    \/ sendRequest
    \/ sendRequestNotRunning
    \/ ClientReceive
    \/ dispose

ClientSpec == ClientInit /\ [][ClientNext]_vars

(***************************************************************************)
(* The extension as the consumer of the core: QueryService on CoreClient   *)
(***************************************************************************)
\* queryService.ts:202-238
onStreamStart(e, m) ==
    IF m.rid = "" THEN e
    ELSE [e EXCEPT !.assemblers =
                       Put(@, m.rid, handleStart(NewAssembler(StreamHighWaterMark), m))]

\* queryService.ts:240-276; the assembler's onAck (queryService.ts:210-215)
\* hands the ack to coreClient.sendNotification
onStreamChunk(e, m) ==
    IF m.rid = "" \/ m.rid \notin DOMAIN e.assemblers THEN e
    ELSE [e EXCEPT !.assemblers[m.rid] = handleChunk(@, m),
                   !.acks = @ \o onAck(e.assemblers[m.rid], m),
                   !.before = e.assemblers[m.rid].bufferedSinceAck]

\* queryService.ts:278-296, and the assembler's onComplete (216-220)
onStreamComplete(e, m) ==
    IF m.rid = "" \/ m.rid \notin DOMAIN e.assemblers THEN e
    ELSE [e EXCEPT !.assemblers = Del(@, m.rid),
                   !.completedStates = @ \cup {handleComplete(e.assemblers[m.rid], m).requestId}]

\* queryService.ts:298-319, and the assembler's onError (221-224)
onStreamError(e, m) ==
    IF m.rid = "" \/ m.rid \notin DOMAIN e.assemblers THEN e
    ELSE [e EXCEPT !.assemblers = Del(@, m.rid)]

\* queryService.ts:179-200
handleStreamNotification(e, m) ==
    CASE m.method = "query.stream.start" -> onStreamStart(e, m)
      [] m.method = "query.stream.chunk" -> onStreamChunk(e, m)
      [] m.method = "query.stream.complete" -> onStreamComplete(e, m)
      [] m.method = "query.stream.error" -> onStreamError(e, m)
      [] OTHER -> e

\* coreClient.ts:127-139, sendNotification of each ack: a line on the core's
\* stdin
sendNotification(acks) ==
    [i \in 1..Len(acks) |-> Notif("query.stream.ack", NoId, acks[i].rid, acks[i].seq)]

\* the extension with a running core and no request sent
ExtInit ==
    /\ ext = [NoExt EXCEPT !.running = TRUE]
    /\ input = <<>> /\ nReq = 0 /\ nExec = 0 /\ nNotif = 0
    /\ pc = "read" /\ call = NoCall
    /\ inflight = Empty /\ cancelled = {} /\ active = Empty
    /\ ackCh = <<>> /\ tasks = Empty /\ output = <<>>
    /\ wmsg = NoMsg /\ wret = "" /\ writers = {} /\ torn = FALSE /\ dropped = 0

\* queryService.ts:100-126, execute in stream mode: the caller's stream
\* options go into the request, which coreClient.sendRequest writes
execute ==
    /\ ext.running
    /\ nExec < MaxStreams
    /\ \E o \in StreamOpts :
          LET id == ext.nextRequestId
              promise == Cardinality(Promises) + 1
          IN  /\ ext' = [ext EXCEPT !.nextRequestId = @ + 1,
                                    !.pending = Put(@, IdToString(NumId(id)), promise),
                                    !.settled = Put(@, promise, <<>>),
                                    !.options = o]
              /\ input' = Append(input, [Req("query.execute", NumId(id), o)
                                            EXCEPT !.tag = nReq + 1])
    /\ nReq' = nReq + 1
    /\ nExec' = nExec + 1
    /\ UNCHANGED <<dropped, nNotif, pc, call, inflight, cancelled, active, ackCh, tasks,
                   output, wmsg, wret, writers, torn>>

\* coreClient.ts:170-187 and queryService.ts:128-152: the next line of the
\* core's output is a response; the promise is settled and execute takes the
\* completed state of the stream
ExtResponse ==
    /\ ext.read < Len(output)
    /\ LET m == output[ext.read + 1]
       IN  /\ m.type = "response"
           /\ ext' = [handleMessage(ext, m) EXCEPT
                         !.read = @ + 1, !.last = m,
                         !.completedStates =
                             IF m.code = "0" THEN @ \ {IdToString(m.id)} ELSE @]
    /\ UNCHANGED <<dropped, input, nReq, nExec, nNotif, pc, call, inflight, cancelled, active,
                   ackCh, tasks, output, wmsg, wret, writers, torn>>

\* the next line of the core's output is a notification: CoreClient hands
\* it to the handler QueryService registered (queryService.ts:57-70), and
\* the acks of the assembler are written to the core's input
onNotification ==
    /\ ext.read < Len(output)
    /\ LET m == output[ext.read + 1]
           e == handleStreamNotification(ext, m)
           acks == SubSeq(e.acks, Len(ext.acks) + 1, Len(e.acks))
       IN  /\ m.type = "notification"
           /\ ext' = [e EXCEPT !.read = @ + 1, !.last = m]
           /\ input' = input \o sendNotification(acks)
           /\ nNotif' = nNotif + Len(acks)
    /\ UNCHANGED <<dropped, nReq, nExec, pc, call, inflight, cancelled, active,
                   ackCh, tasks, output, wmsg, wret, writers, torn>>

ExtNext ==
    \/ execute
    \/ ExtResponse
    \/ onNotification
    \/ ServeNotification
    \/ ServeRequest
    \/ ServeRespond
    \/ EncodeDone
    \/ executeStreamOpenFails
    \/ executeStreamOpen
    \/ Timeout
    \/ RowsNextRow
    \/ RowsValuesError
    \/ RowsNextEnd
    \/ HandleChunk
    \/ flushAck
    \/ StreamReadError
    \/ StreamComplete
    \/ StreamReturnOk
    \/ StreamReturnErr
    \/ \E t \in 1..MaxNotifs + 1 : handleAck(t)

ExtSpec == ExtInit /\ [][ExtNext]_vars

(***************************************************************************)
(* Properties                                                              *)
(***************************************************************************)
HandlerPcs == {"core.ping", "query.execute"} \cup StreamPcs

\* the handler of the request being served has been called and has not returned
Executing == pc \in HandlerPcs \/ (pc = "encode" /\ wret \in StreamPcs)

\* the streaming handler is suspended inside session.HandleChunk
StreamBlocked == pc = "flushAck" /\ ~call.ackNil /\ Len(ackCh) >= AckChCap

PingQueued(k) ==
    \E i \in 1..Len(input) :
        input[i].kind = "req" /\ input[i].method = "core.ping" /\ input[i].tag = k

Answered(k) ==
    \E i \in 1..Len(output) : output[i].type = "response" /\ output[i].tag = k

\* C1: while a streaming query.execute is blocked in its chunk gate and the
\* client has written no ack (no notification at all), a core.ping written
\* afterwards is dispatched and answered before any ack arrives.
C1_PingAnsweredWhileStreamBlocked ==
    \A k \in 1..MaxReqs :
        (StreamBlocked /\ nNotif = 0 /\ PingQueued(k)) ~> (Answered(k) \/ nNotif > 0)

MatchingAckQueued ==
    \E i \in 1..Len(input) :
        /\ input[i].method = "query.stream.ack"
        /\ input[i].rid = call.rid
        /\ input[i].seq >= call.seq

\* C2: a streaming handler blocked in its chunk gate is eventually unblocked
\* once the client has written the matching query.stream.ack: the serve loop
\* reads and dispatches the ack while the handler is still executing.
C2_AckUnblocksWaitingHandler ==
    (StreamBlocked /\ MatchingAckQueued) ~> ~StreamBlocked

\* C3: a HandleChunk call whose post-increment bufferedRows reached the
\* high-water mark with hasMore = true returns only after an ack of this
\* stream with seq >= the chunk's seq was received, or the context is done.
C3_GatedChunkWaitsForAck ==
    call.lastGate = "hwm" => (call.ackMax >= call.lastSeq \/ call.ctxErr # "none")

Terminals == {"query.stream.complete", "query.stream.error"}

\* the terminal notifications written for the stream being served
TerminalsOfStream ==
    {j \in call.startAt + 1..Len(output) : output[j].method \in Terminals}

StreamRunning == call.startAt > 0 /\ TerminalsOfStream = {}
StreamTerminated == call.startAt > 0 /\ Cardinality(TerminalsOfStream) = 1

TerminalSafety ==
    call.startAt > 0 =>
        /\ Cardinality(TerminalsOfStream) <= 1
        /\ \A j \in TerminalsOfStream : \A m \in j + 1..Len(output) :
               output[m].method # "query.stream.chunk"

\* C4: every stream emits exactly one terminal notification
\* (query.stream.complete or query.stream.error), on every path, and no
\* query.stream.chunk after it.
C4_ExactlyOneTerminal ==
    /\ []TerminalSafety
    /\ StreamRunning ~> StreamTerminated

\* the stream errors written for the stream being served
ErrorsOfStream ==
    {j \in call.startAt + 1..Len(output) : output[j].method = "query.stream.error"}

\* C5: cancelling the context of a streaming request while its producer reads
\* rows, is between chunks or is inside HandleChunk is followed by no further
\* query.stream.chunk or query.stream.complete, and by exactly one
\* query.stream.error, with fatal = false and code CANCELLED.
C5_CancelYieldsOneCancelledError ==
    (call.startAt > 0 /\ call.cancelPc \in {"next", "handleChunk", "flushAck"}) =>
        /\ \A j \in call.cancelAt + 1..Len(output) :
               output[j].method \notin {"query.stream.chunk", "query.stream.complete"}
        /\ pc = "returned" =>
               /\ Cardinality(ErrorsOfStream) = 1
               /\ \A j \in ErrorsOfStream :
                      output[j].code = "CANCELLED" /\ ~output[j].fatal

CancelQueued ==
    \E i \in 1..Len(input) :
        input[i].method = "query.cancel" /\ input[i].id = call.id

\* C6: a query.cancel carrying the id of a request whose handler is executing
\* (here: blocked) is processed by the server, and the handler's context is
\* cancelled, before the handler returns on its own.
C6_CancelReachesRunningHandler ==
    (StreamBlocked /\ CancelQueued) ~> (call.no \in cancelled)

C9_InflightExactlyWhileExecuting ==
    \A k \in Keys :
        /\ (Executing /\ call.key = k) => k \in DOMAIN inflight
        /\ k \in DOMAIN inflight => (Executing \/ pc = "returned") /\ call.key = k

\* C10: Cancel(id) returns true exactly when id is in the in-flight registry
\* at the call, and then the cancel handle has been invoked and the entry
\* removed; for an unknown or already completed id it returns false, invokes
\* no cancel handle, leaves the registry unchanged and does not stop Serve.
C10_CancelContract ==
    [][\A t \in DOMAIN tasks :
          /\ (tasks[t].method = "query.cancel" /\ tasks[t].pc = "start"
                  /\ t \in DOMAIN tasks' /\ tasks'[t].pc = "loaded")
              => (cancelKey(tasks[t].id) \in DOMAIN inflight /\ tasks'[t].live)
          /\ (tasks[t].method = "query.cancel" /\ tasks[t].pc = "start"
                  /\ t \notin DOMAIN tasks')
              => (/\ cancelKey(tasks[t].id) \notin DOMAIN inflight
                  /\ inflight' = inflight /\ cancelled' = cancelled /\ pc' = pc)
          /\ (tasks[t].pc = "loaded" /\ t \notin DOMAIN tasks')
              => (/\ tasks[t].handle \in cancelled'
                  /\ tasks[t].key \notin DOMAIN inflight')]_vars

\* the step on which a HandleChunk call returns to sendChunk
HandleChunkReturns == pc \in {"handleChunk", "flushAck"} /\ pc' \in {"next", "afterLoop"}

\* bufferedRows after the increment of the HandleChunk call in progress
PostIncrement == IF pc = "handleChunk" THEN call.buffered + call.batch ELSE call.buffered

\* C11: a final chunk (hasMore = false) whose post-increment bufferedRows is
\* below the high-water mark still waits: its HandleChunk call returns only
\* after an ack of this stream with seq >= the chunk's seq, or with a done
\* context; with no ack it never returns normally.
C11_FinalChunkWaitsForAck ==
    [][(HandleChunkReturns /\ ~call.hasMore /\ PostIncrement < call.hwm)
          => (call.ackMax >= call.seq \/ call.ctxErr # "none")]_vars

\* C12: a HandleChunk call with hasMore = true whose post-increment
\* bufferedRows is below the high-water mark returns normally in one step,
\* leaves the ack channel as it is, and keeps the accumulated count in
\* bufferedRows.
C12_BelowMarkReturnsAtOnce ==
    [][(/\ pc = "handleChunk" /\ pc' # pc
        /\ call.hasMore
        /\ call.buffered + call.batch < call.hwm)
          => (/\ pc' = "next"
              /\ ackCh' = ackCh
              /\ call'.buffered = call.buffered + call.batch
              /\ call'.code = call.code
              /\ call'.seq = call.seq + 1)]_vars

\* a chunk below the mark went through, its rows are still counted, and the
\* handler reads the next row with an empty ack channel
C12_Witness ==
    /\ pc = "next"
    /\ call.lastGate = "open"
    /\ call.hwm = 3 /\ call.buffered = 2
    /\ ackCh = <<>>

\* C13: a HandleChunk wait is ended by an ack and leaves bufferedRows = 0:
\* with highWaterMark 3 and chunks of 2 rows (seq 1) and 1 row (seq 2), the
\* second call has returned only if an ack of this stream with seq >= 2 was
\* received, and bufferedRows is 0 afterwards.
C13_AckEndsWaitAndClearsBuffer ==
    (/\ call.hwm = 3 /\ call.total = 3
     /\ call.lastSeq = 2
     /\ call.ctxErr = "none")
        => (call.ackMax >= 2 /\ call.buffered = 0)

RedeliveredAckKept == call.ackMax > 0 /\ call.ackMax <= call.keptAt

\* C15: redelivering an ack whose seq is already satisfied has no observable
\* effect: the stream that received it is never suspended on the channel
\* that holds it, and bufferedRows is never negative.
C15_RedeliveredAckInert ==
    /\ call.buffered >= 0
    /\ RedeliveredAckKept => ~StreamBlocked

\* C16: an ack whose requestId is not in the registry (unknown, empty, of
\* another id, of a completed stream) is ignored: handling it changes no
\* ack channel and no bufferedRows, writes nothing to the output, and leaves
\* the serve loop and the handler where they are.
C16_UnknownAckIgnored ==
    [][\A t \in DOMAIN tasks :
          (/\ tasks[t].method = "query.stream.ack"
           /\ t \notin DOMAIN tasks'
           /\ (tasks[t].rid = "" \/ tasks[t].rid \notin DOMAIN active))
          => (/\ ackCh' = ackCh
              /\ active' = active
              /\ call'.buffered = call.buffered
              /\ output' = output
              /\ writers' = writers /\ wmsg' = wmsg
              /\ pc' = pc
              /\ input' = input)]_vars

\* an ack naming an unregistered id was handled while a stream was running,
\* and that stream has written its query.stream.complete
C16_Witness ==
    /\ call.foreign
    /\ pc = "reset"
    /\ \E i \in 1..Len(output) :
          output[i].method = "query.stream.complete" /\ output[i].rid = call.rid

\* a client ack was put on the channel that qualifies for the chunk now in
\* hand: it arrived after the previous chunk's call returned and before this
\* chunk's call reached its send, and its seq is at least this chunk's
QualifyingAckKept ==
    /\ call.ackMax > call.keptAt
    /\ call.seq = call.keptAt + 1
    /\ call.keptPc # "flushAck"

\* C17: handleAck does not block: an ack that arrives while the coordinator
\* is not waiting is kept on the channel if there is room, and then
\* satisfies the next HandleChunk call, which therefore is not suspended.
C17_KeptAckSatisfiesNextCall == QualifyingAckKept => ~StreamBlocked

\* a query.stream.cancel naming the stream being served has been dispatched
\* and its handler has not run yet
StreamCancelPending ==
    \E t \in DOMAIN tasks :
        tasks[t].method = "query.stream.cancel" /\ tasks[t].rid = call.rid

\* C18: query.stream.cancel with a registered requestId cancels that
\* stream's context and no other, after which a HandleChunk wait pending for
\* the stream returns.
C18_StreamCancelEndsWait ==
    /\ [][\A t \in DOMAIN tasks :
             (tasks[t].method = "query.stream.cancel" /\ t \notin DOMAIN tasks')
             => IF tasks[t].rid = call.rid /\ call.rid \in DOMAIN active
                THEN call'.ctxErr # "none"
                ELSE call'.ctxErr = call.ctxErr]_vars
    /\ (StreamBlocked /\ StreamCancelPending) ~> ~StreamBlocked

\* the query.stream.error notifications with code ACK_TIMEOUT on the output
AckTimeouts ==
    {j \in 1..Len(output) :
        output[j].method = "query.stream.error" /\ output[j].code = "ACK_TIMEOUT"}

\* C19: query.stream.error with code ACK_TIMEOUT and fatal = true is written
\* when, and only when, a HandleChunk wait ends because no qualifying ack
\* came in time: a wait without such an ack and without cancellation leads to
\* the notification, which is always fatal.
C19_AckTimeoutOnUnackedWait ==
    /\ [](\A j \in AckTimeouts : output[j].fatal)
    /\ (StreamBlocked /\ call.ackMax < call.seq /\ call.ctxErr # "canceled")
           ~> (AckTimeouts # {} \/ call.ctxErr = "canceled")

\* the query.stream.start notifications written for the stream being served
StartsOfStream ==
    {j \in call.startAt..Len(output) :
        output[j].method = "query.stream.start" /\ output[j].rid = call.rid}

\* the handler has opened a stream and is past the write of its start
StreamStarted == call.startAt > 0 /\ ~(pc = "encode" /\ wret = "next")

\* C20: every stream writes exactly one query.stream.start, and it comes
\* before every query.stream.chunk of the same requestId: between a chunk and
\* the nearest start of its requestId before it there are only chunks.
C20_OneStartBeforeChunks ==
    /\ StreamStarted => StartsOfStream = {call.startAt}
    /\ \A j \in 1..Len(output) :
          output[j].method = "query.stream.chunk"
          => \E i \in 1..j - 1 :
                /\ output[i].method = "query.stream.start"
                /\ output[i].rid = output[j].rid
                /\ \A m \in i + 1..j - 1 :
                      output[m].rid = output[j].rid
                      => output[m].method = "query.stream.chunk"

\* a stream has written its start and then chunks 1 and 2, and has reached
\* the end of its rows
C20_Witness ==
    /\ pc = "afterLoop"
    /\ StartsOfStream = {call.startAt}
    /\ \E i, j \in call.startAt + 1..Len(output) :
          /\ i < j
          /\ output[i].method = "query.stream.chunk" /\ output[i].seq = 1
          /\ output[j].method = "query.stream.chunk" /\ output[j].seq = 2

\* the chunks written before output[j] for the same stream: same requestId,
\* and no query.stream.start of that requestId in between
ChunksBefore(j) ==
    {i \in 1..j - 1 :
        /\ output[i].method = "query.stream.chunk"
        /\ output[i].rid = output[j].rid
        /\ \A m \in i + 1..j - 1 :
              ~(output[m].method = "query.stream.start" /\ output[m].rid = output[j].rid)}

\* C21: the chunks of one stream carry seq 1, 2, 3, ... in the order they
\* are written: the first has seq 1 and every later one has a seq greater
\* than all chunks of the stream before it (the next number, in fact).
C21_ChunkSeqIncreasing ==
    \A j \in 1..Len(output) :
        output[j].method = "query.stream.chunk"
        => /\ output[j].seq = Cardinality(ChunksBefore(j)) + 1
           /\ \A i \in ChunksBefore(j) : output[i].seq < output[j].seq

\* a stream wrote chunk 1, then chunk 2, then query.stream.complete
C21_Witness ==
    /\ pc = "reset"
    /\ \E i, j, k \in call.startAt + 1..Len(output) :
          /\ i < j /\ j < k
          /\ output[i].method = "query.stream.chunk" /\ output[i].seq = 1
          /\ output[j].method = "query.stream.chunk" /\ output[j].seq = 2
          /\ output[k].method = "query.stream.complete"

\* the handler finds the rows exhausted: rows.Next() is false and no error
RowsExhausted ==
    /\ pc = "next" /\ pc' # "next"
    /\ call'.total = call.total
    /\ call'.code = call.code
    /\ call'.rowsErr = "none"

\* C22: when the rows are exhausted, a pending partial batch is sent as one
\* chunk with hasMore = false and, when no batch is pending, nothing is
\* sent; no query.stream.chunk without rows is ever written, and no chunk of
\* a stream follows its chunk with hasMore = false.
C22_NoEmptyFinalChunk ==
    /\ [](\A j \in 1..Len(output) :
            output[j].method = "query.stream.chunk"
            => /\ output[j].rows > 0
               /\ \A i \in ChunksBefore(j) : output[i].hasMore)
    /\ [][RowsExhausted
            => IF call.batch > 0
               THEN /\ pc' = "encode"
                    /\ wmsg' = Notification("query.stream.chunk", call.rid, call.seq,
                                            call.batch, FALSE, "", FALSE)
               ELSE pc' = "afterLoop" /\ wmsg' = wmsg /\ writers' = writers]_vars

\* the rows ended with no batch pending: the last chunk has hasMore = true
\* and query.stream.complete follows it directly
C22_Witness ==
    /\ pc = "reset"
    /\ Len(output) >= 2
    /\ output[Len(output)].method = "query.stream.complete"
    /\ output[Len(output) - 1].method = "query.stream.chunk"
    /\ output[Len(output) - 1].hasMore

\* executeStream is running: between its registration of the stream and its
\* return
InExecuteStream == pc \in StreamPcs \/ (pc = "encode" /\ wret \in StreamPcs)

\* C23: the stream registry holds an entry for a requestId only while the
\* handler of that stream is running: once executeStream has returned, on
\* whatever path, the registry has no entry, so that a later ack or cancel
\* for the id finds nothing.
C23_RegistryOnlyWhileRunning ==
    /\ \A k \in DOMAIN active : InExecuteStream /\ call.rid = k
    /\ ~InExecuteStream => active = Empty

\* executeStream has returned an error after its query.stream.error, the
\* registry is empty, and an ack for the stream is still to be handled
C23_Witness ==
    /\ pc = "returned"
    /\ call.startAt > 0 /\ call.code # "0"
    /\ \E j \in call.startAt + 1..Len(output) : output[j].method = "query.stream.error"
    /\ active = Empty
    /\ \E t \in DOMAIN tasks :
          tasks[t].method = "query.stream.ack" /\ tasks[t].rid = call.rid

\* Serve decodes a request whose method has no handler
UnknownMethodRead ==
    /\ pc = "read"
    /\ input # <<>>
    /\ Head(input).kind = "req"
    /\ Head(input).method \notin Handlers
    /\ input' = Tail(input)

\* C25: a request whose method has no registered handler gets at once an
\* error response with code -32601 and the request's id; no handler is
\* called, no in-flight entry is stored, and Serve goes back to reading.
C25_UnknownMethodAnswered ==
    [][UnknownMethodRead
          => /\ pc' = "encode"
             /\ wmsg' = Response(Head(input).id, "-32601", Head(input).tag)
             /\ wret' = "read"
             /\ call = NoCall /\ call' = NoCall
             /\ inflight' = inflight
             /\ cancelled' = cancelled
             /\ active' = active
             /\ tasks' = tasks]_vars

\* the first request was answered with -32601 and its id, and the request
\* after it was answered by its handler
C25_Witness ==
    \E i, j \in 1..Len(output) :
        /\ i < j
        /\ output[i].type = "response" /\ output[i].code = "-32601"
        /\ output[i].tag = 1 /\ output[i].id = NumId(1)
        /\ output[j].type = "response" /\ output[j].tag = 2
        /\ output[j].code # "-32601"

\* Serve decodes a notification whose method has no handler
UnknownNotificationRead ==
    /\ pc = "read"
    /\ input # <<>>
    /\ Head(input).kind = "notif"
    /\ Head(input).method \notin NotificationHandlers
    /\ input' = Tail(input)

\* C26: a notification whose method has no registered handler is dropped:
\* nothing is written to the output, no goroutine is started, neither
\* registry changes, and Serve goes back to reading.
C26_UnknownNotificationDropped ==
    [][UnknownNotificationRead
          => /\ pc' = "read"
             /\ output' = output /\ wmsg' = wmsg /\ writers' = writers
             /\ tasks' = tasks
             /\ inflight' = inflight /\ cancelled' = cancelled
             /\ active' = active /\ ackCh' = ackCh
             /\ call' = call]_vars

\* a notification was dropped, nothing was written, and the handler of the
\* request read after it has run
C26_Witness ==
    /\ dropped = 1
    /\ pc = "returned"
    /\ call.tag = 1 /\ call.code = "0"
    /\ output = <<>>
    /\ tasks = Empty

\* Serve has returned to main
ServeReturned == {"return nil", "return err"}

\* C27: Serve returns only when the input has ended, and then it returns
\* nil, or when an envelope does not decode, and then it returns that error:
\* every step on which Serve returns is a Decode of the end of the input or
\* of a malformed envelope.  No handler error, unknown method or cancel that
\* finds nothing leads to a return.
C27_ServeReturnsOnEofOrDecodeError ==
    [][(pc \notin ServeReturned /\ pc' \in ServeReturned)
          => /\ pc = "read"
             /\ input # <<>>
             /\ \/ Head(input).kind = "eof" /\ pc' = "return nil"
                \/ Head(input).kind = "bad" /\ pc' = "return err"]_vars

\* Serve answered a request without handler with -32601 and a request whose
\* handler failed with the handler's error, went on, and returned nil at the
\* end of the input
C27_Witness ==
    /\ pc = "return nil"
    /\ \E i \in 1..Len(output) : output[i].type = "response" /\ output[i].code = "-32601"
    /\ \E i \in 1..Len(output) :
          output[i].type = "response" /\ output[i].code \notin {"0", "-32601"}

\* Serve decodes a notification whose method has a handler
NotificationRead ==
    /\ pc = "read"
    /\ input # <<>>
    /\ Head(input).kind = "notif"
    /\ Head(input).method \in NotificationHandlers
    /\ input' = Tail(input)

\* one iteration of the read loop of Serve begins
ServeReads ==
    \/ ServeEOF
    \/ ServeDecodeError
    \/ ServeNotification
    \/ ServeUnknownNotification
    \/ ServeUnknownMethod
    \/ ServeRequest

\* C28: each notification is handed to a goroutine of its own and Serve is
\* back at its read at once; while notification handlers have not finished,
\* however many and however long, Serve can read the envelope that follows.
C28_NotificationsDoNotBlockServe ==
    /\ [][NotificationRead
            => /\ pc' = "read"
               /\ Cardinality(DOMAIN tasks') = Cardinality(DOMAIN tasks) + 1
               /\ call' = call /\ output' = output]_vars
    /\ []((pc = "read" /\ input # <<>>) => ENABLED ServeReads)

\* a notification handler has not run yet although the request written
\* after its notification has been read and its handler has returned
C28_Witness ==
    /\ pc = "returned"
    /\ call.tag = 1
    /\ \E t \in DOMAIN tasks : tasks[t].pc = "start"

\* request k has been written and Serve will reach it or is serving it: no
\* malformed envelope precedes it in the input
RequestPending(k) ==
    \/ Executing /\ call.tag = k
    \/ \E i \in 1..Len(input) :
          /\ input[i].kind = "req" /\ input[i].tag = k
          /\ \A j \in 1..i - 1 : input[j].kind # "bad"

\* C29: every request with an id gets exactly one response, and the
\* response carries the request's id: no two responses answer the same
\* request, the response written for a handler's request echoes its id, and
\* every request Serve can reach is answered in the end.
C29_ExactlyOneResponsePerRequest ==
    /\ [](\A i, j \in 1..Len(output) :
            (/\ output[i].type = "response" /\ output[j].type = "response"
             /\ output[i].tag = output[j].tag) => i = j)
    /\ [][(pc = "returned" /\ pc' = "encode")
            => (wmsg'.type = "response" /\ wmsg'.id = call.id /\ wmsg'.tag = call.tag)]_vars
    /\ \A k \in 1..MaxReqs : RequestPending(k) ~> Answered(k)

\* C24: with highWaterMark = 0 HandleChunk never waits: a call, for a chunk
\* with hasMore = true or for the final chunk, is never suspended on the ack
\* channel.
C24_ZeroMarkNeverWaits ==
    (call.hwm = 0 /\ call.rid # "") => ~StreamBlocked

\* C30: Reset sets bufferedRows to zero and nothing else: the ack channel,
\* the high-water mark and the requestId are as before, and the next
\* HandleChunk decides to flush exactly as a new session with the same mark
\* would on its first chunk.
C30_ResetClearsCounterOnly ==
    /\ [][(call'.lastGate = "reset" /\ call.lastGate # "reset")
            => /\ call' = [call EXCEPT !.buffered = 0, !.lastGate = "reset",
                                       !.cleared = call.buffered]
               /\ ackCh' = ackCh
               /\ pc' = pc]_vars
    /\ [][(call.lastGate = "reset" /\ pc = "handleChunk" /\ pc' # pc)
            => /\ (pc' = "flushAck") <=> shouldAck(call.hwm, call.batch, call.hasMore)
               /\ pc' # "flushAck" => call'.buffered = call.batch]_vars

\* Reset cleared a counter that was not zero, and the chunk after it went
\* through below the mark although the rows before and after the Reset
\* together reach it
C30_Witness ==
    /\ call.cleared > 0
    /\ call.lastGate = "open"
    /\ call.buffered < call.hwm
    /\ call.buffered + call.cleared >= call.hwm

\* chunks of the stream being served that are on the output
ChunksOfStream ==
    {j \in call.startAt + 1..Len(output) : output[j].method = "query.stream.chunk"}

\* C31: the core throttles to one outstanding chunk per stream.  While the
\* consumer has acknowledged nothing (the client has written no notification
\* at all), at most one chunk of the stream being served is on the output.
C31_OneOutstandingChunk ==
    (call.startAt > 0 /\ nNotif = 0) => Cardinality(ChunksOfStream) <= 1

\* C34: an ack of this stream with seq >= the seq of the chunk the handler
\* is waiting on, handled while the handler is suspended and the capacity-1
\* channel holds only an older ack with a lower seq, is not lost: once
\* handleAck has run the channel holds an ack with seq >= the chunk's seq.
C34_QualifyingAckNotLost ==
    [][\A t \in DOMAIN tasks :
          (/\ tasks[t].method = "query.stream.ack"
           /\ t \notin DOMAIN tasks'
           /\ tasks[t].rid = call.rid
           /\ tasks[t].rid \in DOMAIN active
           /\ tasks[t].seq >= call.seq
           /\ StreamBlocked
           /\ \A i \in 1..Len(ackCh) : ackCh[i].seq < call.seq)
          => (\E i \in 1..Len(ackCh') : ackCh'[i].seq >= call.seq)]_vars

StreamMethods ==
    {"query.stream.start", "query.stream.chunk", "query.stream.complete",
     "query.stream.error"}

\* output[s] is the query.stream.start of a stream with requestId r
StartOf(s, r) == output[s].method = "query.stream.start" /\ output[s].rid = r

C37_OtherRequestUntouched ==
    [][\A t \in DOMAIN tasks :
          (/\ tasks[t].pc = "loaded"
           /\ t \notin DOMAIN tasks'
           /\ Executing
           /\ tasks[t].handle # call.no
           /\ call.key # ""
           /\ call.key \in DOMAIN inflight
           /\ inflight[call.key] = call.no)
          => (/\ call.key \in DOMAIN inflight'
              /\ inflight'[call.key] = call.no
              /\ call.no \notin cancelled')]_vars

\* C38: whatever HandleChunk and Reset calls were made on a StreamSession,
\* with or without an ack channel, bufferedRows is never negative, and with a
\* highWaterMark H > 0 it is below H whenever no HandleChunk call is in
\* progress.
C38_BufferedBelowMark ==
    /\ call.buffered >= 0
    /\ (call.hwm > 0 /\ pc \in SessionIdle) => call.buffered < call.hwm

\* the chunk handed to HandleChunk brings the accumulated rows to the
\* high-water mark (a mark of 0 is no mark), or it is the final chunk
AckDue == (call.hwm > 0 /\ call.buffered + call.batch >= call.hwm) \/ ~call.hasMore

PendingPromises == {ext.pending[id] : id \in DOMAIN ext.pending}

\* C40: every promise returned by sendRequest is settled at most once, and it
\* is in the pending map exactly as long as it is not settled.  A response
\* whose id has a pending promise settles that promise (resolved on a result,
\* rejected on an error) and removes it; any other message (a second response
\* with the same id, a response with an unknown id, a notification) settles
\* nothing.  dispose rejects the pending promises, and only those, and leaves
\* the map empty.
C40_SettledExactlyOnce ==
    /\ [](\A k \in Promises :
             /\ Len(ext.settled[k]) <= 1
             /\ (ext.settled[k] = <<>>) <=> (k \in PendingPromises))
    /\ [](~ext.running => ext.pending = Empty)
    /\ [][ext'.read = ext.read + 1 =>
             LET m == ext'.last
                 key == IdToString(m.id)
             IN  IF m.type = "response" /\ key \in DOMAIN ext.pending
                 THEN /\ ext'.settled =
                             [ext.settled EXCEPT ![ext.pending[key]] =
                                 <<IF m.code = "0" THEN "resolved" ELSE "rejected">>]
                      /\ ext'.pending = Del(ext.pending, key)
                 ELSE /\ ext'.settled = ext.settled
                      /\ ext'.pending = ext.pending]_vars
    /\ [][(ext.running /\ ~ext'.running) =>
             /\ ext'.pending = Empty
             /\ \A k \in Promises :
                   ext'.settled[k] = IF k \in PendingPromises THEN <<"stopped">>
                                     ELSE ext.settled[k]]_vars

\* the first promise was resolved by the response with id 1, a second
\* response with id 1 has just been handled and settled nothing, and the
\* second promise was rejected by dispose
C40_Witness ==
    /\ pc = "client"
    /\ Cardinality(Promises) = 2
    /\ ext.settled[1] = <<"resolved">>
    /\ ext.settled[2] = <<"stopped">>
    /\ ext.last.type = "response" /\ IdToString(ext.last.id) = "1"
    /\ ext.read = 2
    /\ ext.pending = Empty /\ ~ext.running

============================================================================
